---- MODULE Spec2Model ----
(***************************************************************************)
(* Model of the NextTalk chat backend: the REST handlers of                *)
(* routes/chats.js (the iteration with media upload), the socket handlers  *)
(* of the server file with authenticated sockets, and the Chat / Message   *)
(* schemas they write through.                                             *)
(*                                                                         *)
(* A handler is an async function: the code between two awaits runs        *)
(* without interruption, every awaited store call is one atomic store      *)
(* operation.  A handler is therefore a sequence of steps, one per awaited *)
(* store call (the call and the synchronous code that follows it), and     *)
(* the steps of different requests interleave.                             *)
(*                                                                         *)
(* Store semantics assumed of Mongoose (not part of the repository):       *)
(*  - doc.save() writes only the modified paths;                           *)
(*  - assigning a whole array (doc.arr = ...) is written as $set with the  *)
(*    version key in the query and incremented (VersionError when the      *)
(*    stored __v differs from the loaded one);                             *)
(*  - arr.push(...) is written as $push and increments __v without         *)
(*    checking it;                                                         *)
(*  - saving a document that was deleted meanwhile throws;                 *)
(*  - MongooseArray.includes(id) compares ids by value.                    *)
(* Assumed of socket.io: a socket leaves all its rooms when its transport  *)
(* closes, before its 'disconnect' handlers run.                           *)
(*                                                                         *)
(* The populate calls and re-reads a handler makes after its last write    *)
(* only shape the events it emits; they are taken together with that       *)
(* write.  Timestamps are the logical time of a conversation (Now).        *)
(*                                                                         *)
(* The handlers are explored in several specifications, each a family of   *)
(* requests over the same store: creation (SpecCreate, SpecCreateSeq),     *)
(* sending (Spec, SpecSend), read state and the chat list (SpecRead),      *)
(* group membership (SpecGroup, SpecMembers, SpecJoin, SpecFan), deletion  *)
(* (SpecDelete, SpecPair, SpecRace, SpecHide), read marks (SpecMarks,      *)
(* SpecReaders), a failing store (SpecFail), the credential check          *)
(* (SpecAuth) and the sockets (SpecSocket, SpecOld, SpecRooms).            *)
(***************************************************************************)
EXTENDS Integers, Sequences, FiniteSets, TLC

\* ---------------------------------------------------------------- bounds
NumUsers == 3
MaxChats == 2
MaxMsgs == 2
MaxInFlight == 2

Users == 1..NumUsers
ChatIds == 1..MaxChats
MsgIds == 1..MaxMsgs
Slots == 1..MaxInFlight

\* request bodies: "" is a missing or empty content, " " is blank text
\* (truthy in the route, empty once the schema has trimmed it)
Contents == {"", "hi"}
\* the id lists a client posts as participants: empty, one id, two ids in
\* either order, a repeated id
IdLists == {<<>>, <<1>>, <<2>>, <<1, 2>>, <<2, 1>>, <<2, 2>>}
\* the id lists a client posts as new members
MemberLists == {<<>>, <<3>>, <<2, 3>>}
\* the bodies of a REST send: <<content, media file attached>>
Payloads == {<<"", FALSE>>, <<" ", FALSE>>, <<"hi", FALSE>>, <<"", TRUE>>}

VARIABLES
    chats,      \* Chat collection: chat id -> document, Unborn or Deleted
    messages,   \* Message collection: message id (commit order) -> document
    reqs,       \* handlers in flight: slot -> local state of the handler
    last,       \* the response of the handler that completed last
    emitted     \* the socket events that handler emitted

vars == <<chats, messages, reqs, last, emitted>>

\* ------------------------------------------------------------ documents
Unborn == [type |-> "unborn"]
Deleted == [type |-> "deleted"]

Exists(c) == chats[c].type \in {"private", "group"}
Stored(m) == messages[m].type = "message"

ToSet(s) == {s[i] : i \in 1..Len(s)}
Includes(s, x) == \E i \in 1..Len(s) : s[i] = x
\* a filter that keeps nobody
Nobody(s, x) == <<>>
Without(s, x) == SelectSeq(s, LAMBDA y : y # x)

UnbornChats == {c \in ChatIds : chats[c].type = "unborn"}
UnbornMsgs == {m \in MsgIds : messages[m].type = "unborn"}
Min(S) == CHOOSE x \in S : \A y \in S : x <= y
Max(S) == CHOOSE x \in S : \A y \in S : y <= x

MessagesOf(c) == {m \in MsgIds : Stored(m) /\ messages[m].chat = c}

\* Date.now() and the timestamps of the schemas, as the logical time of a
\* conversation: later than every timestamp stored for the chat so far
Stamps(c) ==
    {0} \cup (IF Exists(c) THEN {chats[c].updatedAt} ELSE {})
        \cup {messages[m].createdAt : m \in MessagesOf(c)}
Now(c) == Max(Stamps(c)) + 1

\* String content after the schema's trim
Trim(content) == IF content = " " THEN "" ELSE content

\* ------------------------------------------------------------- requests
Idle == [pc |-> "idle"]
InFlight == {s \in Slots : reqs[s].pc # "idle"}
FreeSlots == Slots \ InFlight
\* a new request takes the first free slot
Free(s) == FreeSlots # {} /\ s = Min(FreeSlots)

\* a response: the operation, its status (the HTTP status, or the socket
\* outcome), the id or count it carries, for the chat list the user and the
\* rows, for markRead the reader and the chat, for the message list the
\* reader, the chat and the messages, for a removal refused because of the
\* last admin the target and the chat
NoResponse ==
    [op |-> "none", status |-> "none", n |-> 0, list |-> {}, user |-> 0, chat |-> 0]

Response(op, status) == [NoResponse EXCEPT !.op = op, !.status = status]

\* an event emitted to a room: the personal room of a user ("user"), the
\* room of a chat ("chat") or the calling socket alone ("socket")
Event(kind, key, ev, c, m) ==
    [room |-> <<kind, key>>, ev |-> ev, chat |-> c, msg |-> m]

\* the handler returns: its response is recorded, nothing else changes
Reply(r) ==
    /\ last' = r
    /\ emitted' = {}
    /\ UNCHANGED <<chats, messages, reqs>>

\* the handler of slot s returns after a store call failed or succeeded
Finish(s, r, evs) ==
    /\ last' = r
    /\ emitted' = evs
    /\ reqs' = [reqs EXCEPT ![s] = Idle]

Await(s, local) ==
    /\ reqs' = [reqs EXCEPT ![s] = local]
    /\ UNCHANGED <<last, emitted>>

Init ==
    /\ chats = [c \in ChatIds |-> Unborn]
    /\ messages = [m \in MsgIds |-> Unborn]
    /\ reqs = [s \in Slots |-> Idle]
    /\ last = NoResponse
    /\ emitted = {}

\* --------------------------------------------------- POST /api/chats
\* the participants the handler works with: the posted ids, the caller
\* appended when the list does not include it
WithCaller(ids, u) == IF Includes(ids, u) THEN ids ELSE Append(ids, u)

\* a lookup that compares the stored array with the posted one
PrivateMatchesInOrder(ids) ==
    {c \in ChatIds : /\ Exists(c)
                     /\ chats[c].type = "private"
                     /\ chats[c].participants = ids}

\* Chat.findOne({type: 'private', participants: {$size: 2, $all: ids}})
PrivateMatches(ids) ==
    {c \in ChatIds : /\ Exists(c)
                     /\ chats[c].type = "private"
                     /\ Len(chats[c].participants) = 2
                     /\ ToSet(ids) \subseteq ToSet(chats[c].participants)}

NewChat(type, ps, admins, now) ==
    [type |-> type, participants |-> ps, admins |-> admins, lastMessage |-> 0,
     hiddenBy |-> <<>>, updatedAt |-> now, v |-> 0]

ChatCreatedEvents(c, ps) == {Event("user", ps[i], "chatCreated", c, 0) : i \in 1..Len(ps)}

\* chat.save() of a new document, the chatCreated events and the 201
InsertChat(r, ps, doc) ==
    /\ UnbornChats # {}
    /\ LET c == Min(UnbornChats) IN
        /\ chats' = [chats EXCEPT ![c] = [doc EXCEPT !.updatedAt = Now(c)]]
        /\ last' = [r EXCEPT !.status = "201", !.n = c]
        /\ emitted' = ChatCreatedEvents(c, ps)
    /\ UNCHANGED messages

CreateChat(s, u, ids, type, name) ==
    LET r == Response("create", "400")
        ps == WithCaller(ids, u)
    IN
    /\ Free(s)
    /\ IF Len(ids) < 1 \/ (type = "group" /\ Trim(name) = "")
          \/ type \notin {"private", "group"}
       THEN Reply(r)
       ELSE IF type = "private"
       THEN IF Len(ps) # 2
            THEN Reply(r)
            ELSE IF PrivateMatches(ps) # {}
                 THEN \E c \in PrivateMatches(ps) :
                        Reply([r EXCEPT !.status = "200", !.n = c])
                 ELSE /\ Await(s, [pc |-> "createSave", op |-> "create", via |-> "rest",
                                   doc |-> NewChat("private", ps, <<>>, 0)])
                      /\ UNCHANGED <<chats, messages>>
       ELSE /\ InsertChat(r, ps, NewChat("group", ps, <<u>>, 0))
            /\ UNCHANGED reqs

CreateSave(s) ==
    /\ reqs[s].pc = "createSave"
    /\ InsertChat(Response("create", "201"), reqs[s].doc.participants, reqs[s].doc)
    /\ reqs' = [reqs EXCEPT ![s] = Idle]

\* ------------------------------------- POST /api/chats/:chatId/messages
\* and socket 'sendMessage'
NewMessage(c, u, content, media, readBy, system, now) ==
    [type |-> "message", chat |-> c, sender |-> u, content |-> content,
     media |-> media, readBy |-> readBy, system |-> system, createdAt |-> now]

\* a schema without the pre-save check
NeverRejects(content, media) == FALSE

\* MessageSchema.pre('save'): the document is refused when it has neither
\* content nor mediaUrl
PreSaveRejects(content, media) == content = "" /\ ~media

\* socket.emit('messageError', ...): to the calling socket alone
MessageError(u, c) == {Event("socket", u, "messageError", c, 0)}

\* a route without the payload guard
AnyPayload(content, file) == FALSE

\* the route's guard: if (!content && !file)
MissingPayload(content, file) == content = "" /\ ~file

\* a handler without the participant check
EveryoneParticipates(chat, u) == TRUE

\* chat.participants.includes(req.user.id)
IsParticipant(chat, u) == Includes(chat.participants, u)

SendLocal(via, u, c, content, media, readBy) ==
    [pc |-> "saveMessage", op |-> "send", via |-> via, user |-> u, chat |-> c, doc |-> chats[c],
     content |-> Trim(content), media |-> media, readBy |-> readBy, msg |-> 0]

SendRest(s, u, c, content, file) ==
    /\ Free(s)
    /\ IF MissingPayload(content, file)
       THEN Reply(Response("send", "400"))
       ELSE IF ~Exists(c)
       THEN Reply(Response("send", "404"))
       ELSE IF ~IsParticipant(chats[c], u)
       THEN Reply(Response("send", "403"))
       ELSE /\ Await(s, SendLocal("rest", u, c, content, file, <<>>))
            /\ UNCHANGED <<chats, messages>>

SendSocket(s, u, c, content) ==
    /\ Free(s)
    /\ IF content = "" \/ ~Exists(c) \/ ~IsParticipant(chats[c], u)
       THEN /\ last' = Response("send", "messageError")
            /\ emitted' = MessageError(u, c)
            /\ UNCHANGED <<chats, messages, reqs>>
       ELSE /\ Await(s, SendLocal("socket", u, c, content, FALSE, <<u>>))
            /\ UNCHANGED <<chats, messages>>

\* a store call of the handler in slot s threw: the catch block answers
Throw(s) ==
    /\ IF reqs[s].via = "socket"
       THEN Finish(s, Response(reqs[s].op, "messageError"),
                   MessageError(reqs[s].user, reqs[s].chat))
       ELSE Finish(s, Response(reqs[s].op, "500"), {})
    /\ UNCHANGED <<chats, messages>>

\* newMessage.save()
SaveMessage(s) ==
    /\ reqs[s].pc = "saveMessage"
    /\ LET q == reqs[s] IN
       IF PreSaveRejects(q.content, q.media)
       THEN Throw(s)
       ELSE /\ UnbornMsgs # {}
            /\ LET m == Min(UnbornMsgs) IN
                /\ messages' = [messages EXCEPT ![m] =
                       NewMessage(q.chat, q.user, q.content, q.media, q.readBy,
                                  FALSE, Now(q.chat))]
                /\ Await(s, [q EXCEPT !.pc = "saveChat", !.msg = m])
            /\ UNCHANGED chats

\* a summary sent to the personal room of every user
EveryoneUpdated(c, ps, m) == {Event("user", u, "chatUpdated", c, m) : u \in Users}

ChatUpdatedEvents(c, ps, m) == {Event("user", ps[i], "chatUpdated", c, m) : i \in 1..Len(ps)}

\* chat.lastMessage = savedMessage._id; chat.updatedAt = ...; chat.save();
\* then the broadcasts and the answer
SaveChat(s) ==
    /\ reqs[s].pc = "saveChat"
    /\ LET q == reqs[s]
           c == q.chat
           m == q.msg
       IN
       IF ~Exists(c)
       THEN Throw(s)
       ELSE IF q.via = "rest"
       THEN /\ chats' = [chats EXCEPT ![c].lastMessage = m, ![c].updatedAt = Now(c)]
            /\ Finish(s, [Response("send", "201") EXCEPT !.n = m],
                      {Event("chat", c, "receive_message", c, m)}
                          \cup ChatUpdatedEvents(c, q.doc.participants, m))
            /\ UNCHANGED messages
       ELSE /\ chats' = [chats EXCEPT ![c].lastMessage = m,
                                      ![c].updatedAt = messages[m].createdAt]
            /\ IF ~Stored(m)
               THEN Finish(s, Response("send", "messageError"), MessageError(q.user, c))
               ELSE Finish(s, [Response("send", "sent") EXCEPT !.n = m],
                           {Event("chat", c, "receive_message", c, m)}
                               \cup ChatUpdatedEvents(c, chats[c].participants, m))
            /\ UNCHANGED messages

\* chat.save() rejects although the chat is there (the store call failed or
\* timed out): the catch block answers, nothing is written
SaveChatFails(s) ==
    /\ reqs[s].pc = "saveChat"
    /\ Exists(reqs[s].chat)
    /\ Throw(s)

\* ----------------------------------- POST /api/chats/:chatId/markAsRead
\* and socket 'mark_as_read'
\* a filter that forgets readBy: {chat, sender: {$ne: u}}
NotSentBy(msgs, c, u) ==
    {m \in MsgIds : /\ msgs[m].type = "message"
                    /\ msgs[m].chat = c
                    /\ msgs[m].sender # u}

\* a filter that forgets the chat: {sender: {$ne: u}, readBy: {$ne: u}}
UnreadAnywhere(msgs, c, u) ==
    {m \in MsgIds : /\ msgs[m].type = "message"
                    /\ msgs[m].sender # u
                    /\ ~Includes(msgs[m].readBy, u)}

\* the filter of Message.updateMany: {chat, sender: {$ne: u}, readBy: {$ne: u}}
UnreadIn(msgs, c, u) ==
    {m \in MsgIds : /\ msgs[m].type = "message"
                    /\ msgs[m].chat = c
                    /\ msgs[m].sender # u
                    /\ ~Includes(msgs[m].readBy, u)}

\* an update that overwrites the list of readers: {$set: {readBy: [u]}}
ReplaceReadBy(msgs, c, u) ==
    [m \in MsgIds |-> IF m \in UnreadIn(msgs, c, u)
                      THEN [msgs[m] EXCEPT !.readBy = <<u>>]
                      ELSE msgs[m]]

\* {$addToSet: {readBy: u}} on every document the filter matches
AddToReadBy(msgs, c, u) ==
    [m \in MsgIds |-> IF m \in UnreadIn(msgs, c, u)
                      THEN [msgs[m] EXCEPT !.readBy = Append(@, u)]
                      ELSE msgs[m]]

MarkLocal(via, u, c) ==
    [pc |-> "updateMany", op |-> "markRead", via |-> via, user |-> u, chat |-> c,
     doc |-> chats[c]]

MarkReadRest(s, u, c) ==
    /\ Free(s)
    /\ IF ~Exists(c)
       THEN Reply(Response("markRead", "404"))
       ELSE IF ~IsParticipant(chats[c], u)
       THEN Reply(Response("markRead", "403"))
       ELSE /\ Await(s, MarkLocal("rest", u, c))
            /\ UNCHANGED <<chats, messages>>

MarkReadSocket(s, u, c) ==
    /\ Free(s)
    /\ IF ~Exists(c) \/ ~IsParticipant(chats[c], u)
       THEN Reply(Response("markRead", "ignored"))
       ELSE /\ Await(s, MarkLocal("socket", u, c))
            /\ UNCHANGED <<chats, messages>>

\* Message.updateMany(...), then the event and the answer
UpdateMany(s) ==
    /\ reqs[s].pc = "updateMany"
    /\ LET q == reqs[s]
           n == Cardinality(UnreadIn(messages, q.chat, q.user))
       IN
        /\ messages' = AddToReadBy(messages, q.chat, q.user)
        /\ IF q.via = "rest"
           THEN Finish(s, [Response("markRead", "200") EXCEPT
                              !.n = n, !.user = q.user, !.chat = q.chat],
                       {Event("user", q.user, "chatRead", q.chat, 0)})
           ELSE Finish(s, [Response("markRead", "marked") EXCEPT
                              !.n = n, !.user = q.user, !.chat = q.chat],
                       IF Exists(q.chat)
                       THEN ChatUpdatedEvents(q.chat, q.doc.participants,
                                              chats[q.chat].lastMessage)
                       ELSE {})
    /\ UNCHANGED chats

\* ------------------------------------------------------- GET /api/chats
\* an unreadCount that looks at the sender only
UnreadUnlessOwn(c, u) ==
    LET m == chats[c].lastMessage IN
    IF m # 0 /\ Stored(m) /\ messages[m].sender # u THEN 1 ELSE 0

\* unreadCount of one row of the chat list
UnreadIndicator(c, u) ==
    LET m == chats[c].lastMessage IN
    IF m # 0 /\ Stored(m) /\ messages[m].sender # u /\ ~Includes(messages[m].readBy, u)
    THEN 1 ELSE 0

\* Chat.find({participants: u}) and the rows <<chat, unreadCount>>
ChatList(u) ==
    {<<c, UnreadIndicator(c, u)>> : c \in {d \in ChatIds :
                                    Exists(d) /\ Includes(chats[d].participants, u)}}

ListChats(s, u) ==
    /\ Free(s)
    /\ Reply([Response("list", "200") EXCEPT !.user = u, !.list = ChatList(u)])

\* ------------------------------------------------------ group membership
\* a group without the admin check
EveryoneAdmin(chat, u) == TRUE

IsAdmin(chat, u) == Includes(chat.admins, u)

\* a guard that protects only the last participant
IsOnlyParticipant(chat, u) == Len(chat.participants) = 1 /\ chat.participants[1] = u

\* handlers without the last-admin guard
NeverLastAdmin(chat, u) == FALSE

\* the guard of removeMember and of leave against removing the last admin
IsLastAdmin(chat, u) ==
    IsAdmin(chat, u) /\ Len(chat.admins) = 1 /\ chat.admins[1] = u

MemberLocal(op, pc, u, c, doc, other) ==
    [pc |-> pc, op |-> op, via |-> "rest", user |-> u, chat |-> c, doc |-> doc,
     other |-> other]

\* POST /api/chats/:chatId/members
AddMembers(s, u, c, ids) ==
    /\ Free(s)
    /\ IF Len(ids) = 0
       THEN Reply(Response("addMembers", "400"))
       ELSE IF ~Exists(c)
       THEN Reply(Response("addMembers", "404"))
       ELSE IF chats[c].type # "group"
       THEN Reply(Response("addMembers", "400"))
       ELSE IF ~IsAdmin(chats[c], u)
       THEN Reply(Response("addMembers", "403"))
       ELSE LET new == SelectSeq(ids, LAMBDA x : ~Includes(chats[c].participants, x)) IN
            IF Len(new) = 0
            THEN Reply(Response("addMembers", "200"))
            ELSE /\ Await(s, MemberLocal("addMembers", "pushSave", u, c,
                         [chats[c] EXCEPT !.participants = @ \o new], new))
                 /\ UNCHANGED <<chats, messages>>

\* chat.save() after participants.push(...): $push, __v incremented
PushSave(s) ==
    /\ reqs[s].pc = "pushSave"
    /\ LET q == reqs[s]
           c == q.chat
       IN
       IF ~Exists(c)
       THEN Throw(s)
       ELSE /\ chats' = [chats EXCEPT ![c].participants = @ \o q.other,
                                      ![c].updatedAt = Now(c),
                                      ![c].v = @ + 1]
            /\ Await(s, [q EXCEPT !.pc = "systemMessage"])
            /\ UNCHANGED messages

\* DELETE /api/chats/:chatId/members/:memberIdToRemove
RemoveMember(s, u, c, t) ==
    /\ Free(s)
    /\ IF ~Exists(c)
       THEN Reply(Response("removeMember", "404"))
       ELSE IF chats[c].type # "group"
       THEN Reply(Response("removeMember", "400"))
       ELSE IF ~IsAdmin(chats[c], u)
       THEN Reply(Response("removeMember", "403"))
       ELSE IF IsLastAdmin(chats[c], t)
       THEN Reply([Response("removeMember", "403") EXCEPT !.user = t, !.chat = c])
       ELSE IF ~Includes(chats[c].participants, t)
       THEN Reply(Response("removeMember", "404"))
       ELSE /\ Await(s, MemberLocal("removeMember", "setSave", u, c,
                    [chats[c] EXCEPT !.participants = Without(@, t),
                                     !.admins = Without(@, t)], t))
            /\ UNCHANGED <<chats, messages>>

\* POST /api/chats/:chatId/leave
Leave(s, u, c) ==
    /\ Free(s)
    /\ IF ~Exists(c)
       THEN Reply(Response("leave", "404"))
       ELSE IF chats[c].type = "private" \/ ~Includes(chats[c].participants, u)
       THEN Reply(Response("leave", "400"))
       ELSE IF IsLastAdmin(chats[c], u)
       THEN Reply(Response("leave", "403"))
       ELSE /\ Await(s, MemberLocal("leave", "setSave", u, c,
                    [chats[c] EXCEPT !.participants = Without(@, u),
                                     !.admins = Without(@, u)], u))
            /\ UNCHANGED <<chats, messages>>

\* chat.save() after participants (and admins) were assigned: $set with
\* the loaded __v in the query
SetSave(s) ==
    /\ reqs[s].pc = "setSave"
    /\ LET q == reqs[s]
           c == q.chat
       IN
       IF ~Exists(c) \/ chats[c].v # q.doc.v
       THEN Throw(s)
       ELSE /\ chats' = [chats EXCEPT ![c].participants = q.doc.participants,
                                      ![c].admins = q.doc.admins,
                                      ![c].updatedAt = Now(c),
                                      ![c].v = @ + 1]
            /\ IF q.op = "deleteChat"
               THEN Finish(s, Response("deleteChat", "200"),
                           {Event("user", q.user, "chatRemoved", c, 0),
                            Event("user", q.doc.participants[1], "chatUpdated", c,
                                  chats[c].lastMessage)})
               ELSE Await(s, [q EXCEPT !.pc = "systemMessage"])
            /\ UNCHANGED messages

\* systemMessage.save(), the broadcasts and the answer
SystemMessage(s) ==
    /\ reqs[s].pc = "systemMessage"
    /\ UnbornMsgs # {}
    /\ LET q == reqs[s]
           c == q.chat
           m == Min(UnbornMsgs)
       IN
        /\ messages' = [messages EXCEPT ![m] =
               NewMessage(c, q.user, "sys", FALSE, <<>>, TRUE, Now(c))]
        /\ Finish(s, Response(q.op, "200"),
                  {Event("chat", c, "receive_message", c, m)}
                      \cup ChatUpdatedEvents(c, q.doc.participants, m)
                      \cup IF q.op = "addMembers" THEN {}
                           ELSE {Event("user", q.other, "chatRemoved", c, 0)})
    /\ UNCHANGED chats

\* ------------------------------------------- DELETE /api/chats/:chatId
DeleteChat(s, u, c) ==
    /\ Free(s)
    /\ IF ~Exists(c)
       THEN Reply(Response("deleteChat", "404"))
       ELSE IF chats[c].type = "group"
       THEN IF ~IsAdmin(chats[c], u)
            THEN Reply(Response("deleteChat", "403"))
            ELSE /\ Await(s, MemberLocal("deleteChat", "deleteMany", u, c, chats[c], u))
                 /\ UNCHANGED <<chats, messages>>
       ELSE IF ~Includes(chats[c].participants, u)
       THEN Reply(Response("deleteChat", "403"))
       ELSE LET doc == [chats[c] EXCEPT !.participants = Without(@, u)] IN
            /\ Await(s, MemberLocal("deleteChat",
                        IF Len(doc.participants) = 0 THEN "deleteMany" ELSE "setSave",
                        u, c, doc, u))
            /\ UNCHANGED <<chats, messages>>

\* Message.deleteMany({chat: chatId})
DeleteMany(s) ==
    /\ reqs[s].pc = "deleteMany"
    /\ messages' = [m \in MsgIds |-> IF m \in MessagesOf(reqs[s].chat)
                                     THEN Deleted ELSE messages[m]]
    /\ Await(s, [reqs[s] EXCEPT !.pc = "deleteOne"])
    /\ UNCHANGED chats

\* Chat.deleteOne({_id: chatId}), the events and the answer
DeleteOne(s) ==
    /\ reqs[s].pc = "deleteOne"
    /\ LET q == reqs[s] IN
        /\ chats' = [chats EXCEPT ![q.chat] = IF Exists(q.chat) THEN Deleted ELSE @]
        /\ Finish(s, Response("deleteChat", "200"),
                  IF q.doc.type = "group"
                  THEN {Event("user", q.doc.participants[i], "chatDeleted", q.chat, 0) :
                            i \in 1..Len(q.doc.participants)}
                  ELSE {})
    /\ UNCHANGED messages

\* ------------------------------------ GET /api/chats/:chatId/messages
ListMessages(s, u, c) ==
    /\ Free(s)
    /\ IF ~Exists(c)
       THEN Reply(Response("listMessages", "404"))
       ELSE IF ~IsParticipant(chats[c], u)
       THEN Reply(Response("listMessages", "403"))
       ELSE /\ Await(s, [pc |-> "findMessages", op |-> "listMessages", via |-> "rest",
                         user |-> u, chat |-> c, doc |-> chats[c]])
            /\ UNCHANGED <<chats, messages>>

\* Message.find({chat: chatId}) and the answer
FindMessages(s) ==
    /\ reqs[s].pc = "findMessages"
    /\ Finish(s, [Response("listMessages", "200") EXCEPT
                     !.user = reqs[s].user, !.chat = reqs[s].chat,
                     !.list = MessagesOf(reqs[s].chat)], {})
    /\ UNCHANGED <<chats, messages>>

\* ------------------------------------------ PUT /api/chats/leave/:chatId
\* a rule that always hands the admin rights to the first participant
PromoteAlways(ps, admins) == IF Len(ps) > 0 THEN <<ps[1]>> ELSE admins

\* if the user was the last admin, the first remaining participant becomes
\* the admin
Promote(ps, admins) == IF Len(admins) = 0 /\ Len(ps) > 0 THEN <<ps[1]>> ELSE admins

LeaveOld(s, u, c) ==
    /\ Free(s)
    /\ IF ~Exists(c)
       THEN Reply(Response("leaveOld", "404"))
       ELSE IF chats[c].type # "group"
       THEN Reply(Response("leaveOld", "400"))
       ELSE LET ps == Without(chats[c].participants, u)
                doc == [chats[c] EXCEPT !.participants = ps,
                                        !.admins = Promote(ps, Without(@, u))]
            IN
            IF Len(ps) = Len(chats[c].participants)
            THEN Reply(Response("leaveOld", "200"))
            ELSE /\ Await(s, MemberLocal("leaveOld",
                             IF Len(ps) = 0 THEN "deleteEmpty" ELSE "setSave",
                             u, c, doc, u))
                 /\ UNCHANGED <<chats, messages>>

\* Chat.findByIdAndDelete(chatId) of a group that became empty
DeleteEmpty(s) ==
    /\ reqs[s].pc = "deleteEmpty"
    /\ LET q == reqs[s] IN
        /\ chats' = [chats EXCEPT ![q.chat] = IF Exists(q.chat) THEN Deleted ELSE @]
        /\ Finish(s, Response("leaveOld", "200"),
                  {Event("user", q.user, "chatDeleted", q.chat, 0)})
    /\ UNCHANGED messages

\* -------------------------------------------- PUT /api/chats/hide/:chatId
\* a route that never finds the user among hiddenBy
NeverHidden(chat, u) == FALSE

\* chat.hiddenBy.includes(userId)
AlreadyHidden(chat, u) == Includes(chat.hiddenBy, u)

Hide(s, u, c) ==
    /\ Free(s)
    /\ IF ~Exists(c)
       THEN Reply(Response("hide", "404"))
       ELSE IF chats[c].type # "private"
       THEN Reply(Response("hide", "400"))
       ELSE IF ~Includes(chats[c].participants, u)
       THEN Reply(Response("hide", "403"))
       ELSE IF AlreadyHidden(chats[c], u)
       THEN Reply([Response("hide", "200") EXCEPT !.user = u, !.chat = c])
       ELSE /\ Await(s, MemberLocal("hide", "hideSave", u, c, chats[c], u))
            /\ UNCHANGED <<chats, messages>>

\* chat.save() after hiddenBy.push(userId): $push, __v incremented
HideSave(s) ==
    /\ reqs[s].pc = "hideSave"
    /\ LET q == reqs[s]
           c == q.chat
       IN
       IF ~Exists(c)
       THEN Throw(s)
       ELSE /\ chats' = [chats EXCEPT ![c].hiddenBy = Append(@, q.user),
                                      ![c].updatedAt = Now(c),
                                      ![c].v = @ + 1]
            /\ Finish(s, [Response("hide", "200") EXCEPT !.user = q.user, !.chat = c], {})
    /\ UNCHANGED messages

\* ------------------------------------------------- socket 'readMessage'
\* the ids come from the client: any message, any user
ReadMessage(s, u, m) ==
    /\ Free(s)
    /\ IF ~Stored(m) \/ Includes(messages[m].readBy, u)
       THEN Reply(Response("readMessage", "ignored"))
       ELSE /\ Await(s, [pc |-> "saveRead", op |-> "readMessage", via |-> "socket",
                         user |-> u, chat |-> messages[m].chat, msg |-> m])
            /\ UNCHANGED <<chats, messages>>

\* message.save() after readBy.push(userId); the catch block only logs
SaveRead(s) ==
    /\ reqs[s].pc = "saveRead"
    /\ LET q == reqs[s] IN
       IF ~Stored(q.msg)
       THEN /\ Finish(s, Response("readMessage", "error"), {})
            /\ UNCHANGED messages
       ELSE /\ messages' = [messages EXCEPT ![q.msg].readBy = Append(@, q.user)]
            /\ Finish(s, [Response("readMessage", "read") EXCEPT
                             !.n = q.msg, !.user = q.user, !.chat = q.chat], {})
    /\ UNCHANGED chats

\* ------------------------------------------------- middleware/auth.js
\* what a request carries as its Authorization header: none, a header of
\* another scheme, "Bearer" without a token, a token that is no JWT, an
\* expired token, a token of a user who does not exist, a valid token
Credentials == {"none", "basic", "bearer", "malformed", "expired", "unknown", "valid"}

\* req.headers.authorization && req.headers.authorization.startsWith('Bearer')
HasBearer(cred) == cred \notin {"none", "basic"}

\* req.headers.authorization.split(' ')[1]; "" is undefined
TokenOf(cred) == IF cred = "bearer" THEN "" ELSE cred

\* jwt.verify(token, secret) throws
VerifyThrows(token) == token \in {"", "malformed", "expired"}

\* a lookup that finds a user for every token
AnyUser(token) == TRUE

\* User.findById(decoded.id) finds the user
UserFound(token) == token = "valid"

\* if (!token) return res.status(401)
NoToken(token) == IF token = "" THEN <<"401">> ELSE <<>>

\* protect: what the middleware does with the request, in order: "401" is
\* a 401 response, "next" the call of next()
Protect(cred) ==
    IF HasBearer(cred)
    THEN IF VerifyThrows(TokenOf(cred)) \/ ~UserFound(TokenOf(cred))
         THEN <<"401">>
         ELSE <<"next">> \o NoToken(TokenOf(cred))
    ELSE NoToken("")

\* the routes behind the middleware that the runs about credentials call
Routes(s, u, c) ==
    \/ SendRest(s, u, c, "hi", FALSE)
    \/ MarkReadRest(s, u, c)

\* a request with a credential: the route handler runs when the
\* middleware calls next()
Authenticated(s, cred, u, c) ==
    /\ Free(s)
    /\ IF Includes(Protect(cred), "next")
       THEN Routes(s, u, c)
       ELSE Reply(Response("auth", "401"))

\* ------------------------------------------------- socket connections
\* a connection holds a slot while it is open: its server, its user (0
\* when the socket has none) and the rooms it has joined
Connection(server, u, rooms) ==
    [pc |-> "connected", server |-> server, user |-> u, rooms |-> rooms]

Connected == {s \in Slots : reqs[s].pc = "connected"}

\* the query token of a handshake
Tokens == {"", "malformed", "expired", "unknown", "valid"}

\* io.use(...): next() without an error
HandshakeAccepts(token) == token # "" /\ ~VerifyThrows(token) /\ UserFound(token)

\* the server with authenticated sockets: io.use, then the connection
\* handler joins the personal room
Connect(s, token, u) ==
    /\ Free(s)
    /\ IF HandshakeAccepts(token)
       THEN /\ reqs' = [reqs EXCEPT ![s] = Connection("auth", u, {<<"user", u>>})]
            /\ UNCHANGED <<chats, messages, last, emitted>>
       ELSE Reply(Response("connect", "refused"))

\* the server of index.js: io.on('connection') without a middleware
ConnectOld(s, token) ==
    /\ Free(s)
    /\ reqs' = [reqs EXCEPT ![s] = Connection("index", 0, {})]
    /\ UNCHANGED <<chats, messages, last, emitted>>

\* the room names a client can send: the id of a chat, or the name of a
\* personal room, 'user_<id>'
RoomKeys == {<<"chat", c>> : c \in ChatIds} \cup {<<"user", u>> : u \in Users}

\* socket.on('join_chat') / socket.on('joinChat'): socket.join(chatId),
\* chatId being the string the client sent
JoinChat(s, key) ==
    /\ reqs[s].pc = "connected"
    /\ reqs' = [reqs EXCEPT ![s].rooms = @ \cup {key}]
    /\ UNCHANGED <<chats, messages, last, emitted>>

\* socket.on('leave_chat'): socket.leave(chatId)
LeaveChat(s, key) ==
    /\ reqs[s].pc = "connected" /\ reqs[s].server = "auth"
    /\ reqs' = [reqs EXCEPT ![s].rooms = @ \ {key}]
    /\ UNCHANGED <<chats, messages, last, emitted>>

\* the rooms the socket of slot s is in, and the sockets an event emitted
\* to a room is delivered to
JoinedRooms(s) == IF "rooms" \in DOMAIN reqs[s] THEN reqs[s].rooms ELSE {}
Receivers(e) == {s \in Slots : e.room \in JoinedRooms(s)}

\* socket.on('sendMessage') of the chat handler: the sender is the senderId
\* of the event; newMessage.save(), then Chat.findByIdAndUpdate with an
\* object for lastMessage, which the schema cannot cast: messageError
SendMessageOld(s, sender, c, content) ==
    /\ reqs[s].pc = "connected" /\ reqs[s].server = "index"
    /\ last' = Response("send", "messageError")
    /\ emitted' = MessageError(reqs[s].user, c)
    /\ IF PreSaveRejects(Trim(content), FALSE)
       THEN UNCHANGED messages
       ELSE /\ UnbornMsgs # {}
            /\ messages' = [messages EXCEPT ![Min(UnbornMsgs)] =
                   NewMessage(c, sender, Trim(content), FALSE, <<>>, FALSE, Now(c))]
    /\ UNCHANGED <<chats, reqs>>

\* socket.on('typing') of the chat handler: userTyping to the chat room
Typing(s, c) ==
    /\ reqs[s].pc = "connected" /\ reqs[s].server = "index"
    /\ last' = Response("typing", "emitted")
    /\ emitted' = {Event("chat", c, "userTyping", c, 0)}
    /\ UNCHANGED <<chats, messages, reqs>>

\* the room names of the runs about sockets: a chat and the personal
\* rooms of two users
SocketKeys == {<<"chat", 1>>, <<"user", 1>>, <<"user", 2>>}

\* a socket that stays in its rooms while it closes
StaysJoined(conn) == [conn EXCEPT !.pc = "closing"]

\* the socket after the transport closed: socket.io has taken it out of
\* every room
Closed(conn) == Idle

\* the transport closes, then socket.on('disconnect') runs; the response
\* records the slot, the user and the rooms the socket was in
Disconnect(s) ==
    /\ reqs[s].pc = "connected"
    /\ reqs' = [reqs EXCEPT ![s] = Closed(reqs[s])]
    /\ last' = [Response("disconnect", "closed") EXCEPT
                    !.n = s, !.user = reqs[s].user, !.list = reqs[s].rooms]
    /\ emitted' = {}
    /\ UNCHANGED <<chats, messages>>

\* ----------------------------------------------------------------- next
\* who asks for which chat when the runs are about creation: the two users
\* of a pair in either order, the caller listed or not, a repeated id, and
\* the requests the route refuses
CreateRequests ==
    {<<u, ids, kind>> : u \in Users, ids \in IdLists, kind \in {"private", "group"}}
        \cup {<<1, <<2>>, "unnamed">>, <<1, <<2>>, "other">>}

\* the chats of the runs about messages: a private chat of 1 and 2, a
\* group of 3 and 2
TalkChats == {<<1, <<2>>, "private">>, <<3, <<2>>, "group">>}

\* the chats of the runs about membership: a group of 1, 2 and 3
GroupChats == {<<1, <<2, 3>>, "group">>}

\* the chats of the runs about membership and the message list: a group
\* of 1, 2 and 3 and a private chat of 1 and 2
MemberChats == GroupChats \cup {<<1, <<2>>, "private">>}

\* the chat of the runs about read marks: a private chat of 1 and 2
PairChats == {<<1, <<2>>, "private">>}

Create(s, requests) ==
    \E r \in requests :
        CreateChat(s, r[1], r[2], IF r[3] = "unnamed" THEN "group" ELSE r[3],
                   IF r[3] = "unnamed" THEN " " ELSE "g")

Member(u, c) == Exists(c) /\ IsParticipant(chats[c], u)

\* participants send a text
SendText(s) ==
    \E u \in Users, c \in ChatIds :
        /\ Member(u, c)
        /\ \/ SendRest(s, u, c, "hi", FALSE)
           \/ SendSocket(s, u, c, "hi")

\* any user sends anything to any chat
Send(s) ==
    \E u \in Users, c \in ChatIds :
        \/ \E p \in Payloads : SendRest(s, u, c, p[1], p[2])
        \/ \E content \in Contents : SendSocket(s, u, c, content)

\* participants send a text, any user marks any chat read or asks for the
\* chat list
Talk(s) ==
    \E u \in Users, c \in ChatIds :
        \/ Member(u, c) /\ SendRest(s, u, c, "hi", FALSE)
        \/ Member(u, c) /\ SendSocket(s, u, c, "hi")
        \/ MarkReadRest(s, u, c)
        \/ MarkReadSocket(s, u, c)
        \/ ListChats(s, u)

TalkStep(s) ==
    \/ CreateSave(s)
    \/ SaveMessage(s)
    \/ SaveChat(s)
    \/ UpdateMany(s)

SendStep(s) ==
    \/ CreateSave(s)
    \/ SaveMessage(s)
    \/ SaveChat(s)

Manage(s) ==
    \E u \in Users, c \in ChatIds :
        \/ \E ids \in MemberLists : AddMembers(s, u, c, ids)
        \/ \E t \in Users : RemoveMember(s, u, c, t)
        \/ Leave(s, u, c)

ManageStep(s) ==
    \/ PushSave(s)
    \/ SetSave(s)
    \/ SystemMessage(s)

\* the older leave route and the message list
Visit(s) ==
    \E u \in Users, c \in ChatIds :
        \/ LeaveOld(s, u, c)
        \/ ListMessages(s, u, c)

VisitStep(s) ==
    \/ CreateSave(s)
    \/ DeleteEmpty(s)
    \/ FindMessages(s)

\* participants send a text, mark the chat read, and any client marks any
\* message read for any user
Mark(s) ==
    \/ \E u \in Users, c \in ChatIds :
        /\ Member(u, c)
        /\ \/ SendRest(s, u, c, "hi", FALSE)
           \/ SendSocket(s, u, c, "hi")
           \/ MarkReadRest(s, u, c)
           \/ MarkReadSocket(s, u, c)
    \/ \E u \in Users, m \in MsgIds : ReadMessage(s, u, m)

Delete(s) == \E u \in Users, c \in ChatIds : DeleteChat(s, u, c)

\* the two users of the private chat write, look at their lists and at the
\* messages, and delete the chat
Pair(s) ==
    \E u \in Users, c \in ChatIds :
        \/ Member(u, c) /\ SendRest(s, u, c, "hi", FALSE)
        \/ ListChats(s, u)
        \/ ListMessages(s, u, c)
        \/ DeleteChat(s, u, c)

PairStep(s) ==
    \/ SendStep(s)
    \/ FindMessages(s)
    \/ SetSave(s)
    \/ DeleteMany(s)
    \/ DeleteOne(s)

\* the chat of the runs about concurrent membership changes: a group of 1
\* and 2 that user 3 can be added to
DuoChats == {<<1, <<2>>, "group">>}

\* the users who read in the runs about concurrent reads
Readers == {2, 3}

\* user 1 writes on the socket; the readers mark the chat or single
\* messages read
Read(s) ==
    \/ \E u \in Readers, c \in ChatIds : Member(u, c) /\ MarkReadRest(s, u, c)
    \/ \E u \in Readers, m \in MsgIds : ReadMessage(s, u, m)

Write(s) == \E c \in ChatIds : Member(1, c) /\ SendSocket(s, 1, c, "hi")

ReadStep(s) ==
    \/ TalkStep(s)
    \/ SaveRead(s)

\* any user hides or deletes any chat
Conceal(s) ==
    \E u \in Users, c \in ChatIds :
        \/ Hide(s, u, c)
        \/ DeleteChat(s, u, c)

ConcealStep(s) ==
    \/ CreateSave(s)
    \/ HideSave(s)
    \/ SetSave(s)
    \/ DeleteMany(s)
    \/ DeleteOne(s)

\* the member the runs about sends against removal are about
Guest == 2

\* a member of the group writes while anyone asks to remove that member or
\* to delete the group
Race(s) ==
    \E u \in Users, c \in ChatIds :
        \/ Member(Guest, c) /\ SendRest(s, Guest, c, "hi", FALSE)
        \/ RemoveMember(s, u, c, Guest)
        \/ DeleteChat(s, u, c)

RaceStep(s) ==
    \/ SaveMessage(s)
    \/ SaveChat(s)
    \/ SetSave(s)
    \/ SystemMessage(s)
    \/ DeleteMany(s)
    \/ DeleteOne(s)

\* the admin of the group writes while it adds user 3
Fan(s) ==
    \E c \in ChatIds :
        \/ Member(1, c) /\ SendRest(s, 1, c, "hi", FALSE)
        \/ Member(1, c) /\ SendSocket(s, 1, c, "hi")
        \/ AddMembers(s, 1, c, <<3>>)

FanStep(s) ==
    \/ SaveMessage(s)
    \/ SaveChat(s)
    \/ PushSave(s)
    \/ SystemMessage(s)

DeleteStep(s) ==
    \/ CreateSave(s)
    \/ SetSave(s)
    \/ DeleteMany(s)
    \/ DeleteOne(s)

\* messages: up to MaxInFlight senders interleave
Next == \E s \in Slots : Create(s, TalkChats) \/ SendText(s) \/ SendStep(s)
\* messages, the requests one after the other
NextSend ==
    \E s \in Slots : (InFlight = {} /\ (Create(s, TalkChats) \/ Send(s))) \/ SendStep(s)
\* read state and the chat list, the requests one after the other
NextRead ==
    \E s \in Slots : (InFlight = {} /\ (Create(s, TalkChats) \/ Talk(s))) \/ TalkStep(s)
\* creation: up to MaxInFlight handlers interleave
NextCreate == \E s \in Slots : Create(s, CreateRequests) \/ CreateSave(s)
\* creation, the requests one after the other
NextCreateSeq ==
    \E s \in Slots : (InFlight = {} /\ Create(s, CreateRequests)) \/ CreateSave(s)
\* membership: up to MaxInFlight handlers interleave
NextGroup == \E s \in Slots : Create(s, GroupChats) \/ Manage(s) \/ ManageStep(s)
\* deletion: up to MaxInFlight handlers interleave
NextDelete == \E s \in Slots : Create(s, TalkChats) \/ Delete(s) \/ DeleteStep(s)
\* membership and the message list, the requests one after the other
NextMembers ==
    \E s \in Slots :
        \/ InFlight = {} /\ (Create(s, MemberChats) \/ Manage(s) \/ Visit(s))
        \/ ManageStep(s) \/ VisitStep(s)
\* read marks, the requests one after the other
NextMarks ==
    \E s \in Slots :
        \/ InFlight = {} /\ (Create(s, PairChats) \/ Mark(s))
        \/ TalkStep(s) \/ SaveRead(s)
\* a private chat and its two sides, the requests one after the other
NextPair ==
    \E s \in Slots : (InFlight = {} /\ (Create(s, PairChats) \/ Pair(s))) \/ PairStep(s)
\* sends against removal and deletion: up to MaxInFlight handlers interleave
NextRace == \E s \in Slots : Create(s, GroupChats) \/ Race(s) \/ RaceStep(s)
\* hiding, the requests one after the other
NextHide ==
    \E s \in Slots : (InFlight = {} /\ (Create(s, TalkChats) \/ Conceal(s))) \/ ConcealStep(s)
\* membership of a group that can grow: up to MaxInFlight handlers interleave
NextJoin == \E s \in Slots : Create(s, DuoChats) \/ Manage(s) \/ ManageStep(s)
\* reads of the same messages: the sends one after the other, up to
\* MaxInFlight reads interleave
NextReaders ==
    \E s \in Slots :
        \/ InFlight = {} /\ (Create(s, PairChats) \/ Write(s))
        \/ Read(s)
        \/ ReadStep(s)
\* requests with every kind of credential, one after the other
NextAuth ==
    \E s \in Slots :
        \/ /\ InFlight = {}
           /\ \/ Create(s, PairChats)
              \/ \E cred \in Credentials, u \in Users, c \in ChatIds :
                    Authenticated(s, cred, u, c)
        \/ TalkStep(s)
\* socket connections to either server
NextSocket ==
    \E s \in Slots :
        \/ \E token \in Tokens, u \in Users : Connect(s, token, u)
        \/ \E token \in Tokens : ConnectOld(s, token)
        \/ \E key \in SocketKeys : JoinChat(s, key) \/ LeaveChat(s, key)
        \/ \E c \in ChatIds : Typing(s, c)
        \/ Disconnect(s)
\* sockets of the server of index.js that send messages
NextOld ==
    \E s \in Slots :
        \/ \E token \in Tokens : ConnectOld(s, token)
        \/ \E u \in Users, c \in ChatIds : SendMessageOld(s, u, c, "hi")
        \/ \E c \in ChatIds : JoinChat(s, <<"chat", c>>)
        \/ Disconnect(s)

\* sends against a growing group: up to MaxInFlight handlers interleave
NextFan == \E s \in Slots : Create(s, DuoChats) \/ Fan(s) \/ FanStep(s)

\* messages with a store that can fail at the save of the chat, the
\* requests one after the other
NextFail ==
    \E s \in Slots :
        \/ InFlight = {} /\ (Create(s, TalkChats) \/ SendText(s))
        \/ SendStep(s)
        \/ SaveChatFails(s)
\* sockets in the rooms of a group, a member who writes and an admin who
\* removes a member
NextRooms ==
    \E s \in Slots :
        \/ Create(s, GroupChats)
        \/ \E u \in Users : Connect(s, "valid", u)
        \/ \E c \in ChatIds : JoinChat(s, <<"chat", c>>) \/ LeaveChat(s, <<"chat", c>>)
        \/ Disconnect(s)
        \/ \E c \in ChatIds : Member(1, c) /\ SendRest(s, 1, c, "hi", FALSE)
        \/ \E c \in ChatIds : RemoveMember(s, 1, c, Guest)
        \/ SaveMessage(s) \/ SaveChat(s) \/ SetSave(s) \/ SystemMessage(s)

Spec == Init /\ [][Next]_vars
SpecRooms == Init /\ [][NextRooms]_vars
SpecOld == Init /\ [][NextOld]_vars
SpecFail == Init /\ [][NextFail]_vars
SpecFan == Init /\ [][NextFan]_vars
SpecRead == Init /\ [][NextRead]_vars
SpecSend == Init /\ [][NextSend]_vars
SpecCreate == Init /\ [][NextCreate]_vars
SpecCreateSeq == Init /\ [][NextCreateSeq]_vars
SpecGroup == Init /\ [][NextGroup]_vars
SpecDelete == Init /\ [][NextDelete]_vars
SpecMembers == Init /\ [][NextMembers]_vars
SpecMarks == Init /\ [][NextMarks]_vars
SpecPair == Init /\ [][NextPair]_vars
SpecAuth == Init /\ [][NextAuth]_vars
SpecSocket == Init /\ [][NextSocket]_vars
SpecHide == Init /\ [][NextHide]_vars
SpecJoin == Init /\ [][NextJoin]_vars
SpecReaders == Init /\ [][NextReaders]_vars
SpecRace == Init /\ [][NextRace]_vars

\* ------------------------------------------------------------ properties
SamePair(ps, c) == Len(ps) = 2 /\ ToSet(ps) = ToSet(chats[c].participants)

\* C1: when a create-private request has just answered 201 with chat c and
\* the next request, by whichever user and in whichever order, asks for a
\* private chat of the same two users, it answers 200 with the id c and
\* the Chat collection is unchanged.
C1_SamePairSameChat ==
    [][\A u \in Users, ids \in IdLists :
        (/\ last.op = "create" /\ last.status = "201"
         /\ chats[last.n].type = "private"
         /\ Cardinality(ToSet(chats[last.n].participants)) = 2
         /\ SamePair(WithCaller(ids, u), last.n)
         /\ \E s \in Slots : CreateChat(s, u, ids, "private", "g"))
        => /\ last' = [Response("create", "200") EXCEPT !.n = last.n]
           /\ chats' = chats]_vars

\* the second request of the pair was answered with the chat of the first
C1_Witness ==
    /\ last.op = "create" /\ last.status = "200"
    /\ chats[last.n].type = "private"
    /\ Cardinality(ToSet(chats[last.n].participants)) = 2
    /\ Cardinality({c \in ChatIds : Exists(c)}) = 1

\* C2: at most one private chat exists for any unordered pair of users.
C2_OnePrivateChatPerPair ==
    \A c, d \in ChatIds :
        (/\ Exists(c) /\ Exists(d)
         /\ chats[c].type = "private" /\ chats[d].type = "private"
         /\ Len(chats[c].participants) = 2 /\ Len(chats[d].participants) = 2
         /\ ToSet(chats[c].participants) = ToSet(chats[d].participants))
        => c = d

Sending(c) == {s \in Slots : reqs[s].pc \in {"saveMessage", "saveChat"} /\ reqs[s].chat = c}

\* C3: once the sends of two different participants to a chat have
\* finished, its lastMessage is the message that was committed last
\* (message ids are handed out in commit order).
C3_LastMessageIsLastCommitted ==
    \A c \in ChatIds :
        (/\ Exists(c) /\ Sending(c) = {}
         /\ \E m, k \in MessagesOf(c) : messages[m].sender # messages[k].sender)
            => chats[c].lastMessage = Max(MessagesOf(c))

\* C4: every group chat with at least one participant has an admin, and
\* every admin is a participant.
C4_GroupHasAdmin ==
    \A c \in ChatIds :
        (Exists(c) /\ chats[c].type = "group" /\ Len(chats[c].participants) >= 1)
            => /\ Len(chats[c].admins) >= 1
               /\ ToSet(chats[c].admins) \subseteq ToSet(chats[c].participants)

\* a member was removed or left, and the admin was refused to go
C4_Witness ==
    /\ last.op \in {"removeMember", "leave"} /\ last.status = "403"
    /\ \E c \in ChatIds :
          /\ Exists(c) /\ chats[c].type = "group"
          /\ chats[c].v >= 1
          /\ Len(chats[c].participants) = 2

\* C5: every stored message that is not a system message has a content or
\* a media reference.
C5_ContentOrMedia ==
    \A m \in MsgIds :
        (Stored(m) /\ ~messages[m].system)
            => (messages[m].content # "" \/ messages[m].media)

\* a blank text was refused by the schema while a media-only message and a
\* text message are stored
C5_Witness ==
    /\ last = Response("send", "500")
    /\ \E m \in MsgIds : Stored(m) /\ messages[m].content = "" /\ messages[m].media
    /\ \E m \in MsgIds : Stored(m) /\ messages[m].content # "" /\ ~messages[m].media

Unchanged == chats' = chats /\ messages' = messages /\ reqs' = reqs

\* C6: a send with neither content nor media is answered 400 (on the
\* socket: messageError to the calling socket) and changes nothing: no
\* document is written, no handler is left running, no event goes to a
\* chat room or to a personal room.
C6_EmptySendRejected ==
    [][\A u \in Users, c \in ChatIds :
        /\ (\E s \in Slots : SendRest(s, u, c, "", FALSE))
              => (last' = Response("send", "400") /\ emitted' = {} /\ Unchanged)
        /\ (\E s \in Slots : SendSocket(s, u, c, ""))
              => /\ last' = Response("send", "messageError")
                 /\ emitted' = {Event("socket", u, "messageError", c, 0)}
                 /\ Unchanged]_vars

\* an empty send was refused in a chat that has a message and a lastMessage
C6_Witness ==
    /\ last = Response("send", "400")
    /\ \E c \in ChatIds : Exists(c) /\ chats[c].lastMessage # 0

C8_MarkReadIdempotent ==
    [][\A s \in Slots :
        (/\ last.op = "markRead" /\ last.status \in {"200", "marked"}
         /\ reqs[s].pc = "updateMany"
         /\ reqs[s].user = last.user /\ reqs[s].chat = last.chat
         /\ UpdateMany(s))
        => (messages' = messages /\ last'.n = 0)]_vars

\* a markRead reported 0 in a chat where the reader had read a message
C8_Witness ==
    /\ last.op = "markRead" /\ last.status = "200" /\ last.n = 0
    /\ \E m \in MessagesOf(last.chat) :
          messages[m].sender # last.user /\ Includes(messages[m].readBy, last.user)

\* the exact unread count of the design: the messages of c that u did not
\* send and has not read
ExactUnread(msgs, c, u) ==
    {m \in MsgIds : /\ msgs[m].type = "message" /\ msgs[m].chat = c
                    /\ msgs[m].sender # u /\ u \notin ToSet(msgs[m].readBy)}

\* C9: the update of markRead(c, u) adds u to the readBy of exactly the
\* unread messages of c, changes no other message and nobody else's mark,
\* reports the number of messages that were unread, leaves none unread,
\* and only a participant's markRead reaches the update.
C9_MarkReadExact ==
    [][\A s \in Slots :
        (reqs[s].pc = "updateMany" /\ UpdateMany(s)) =>
            LET u == reqs[s].user
                c == reqs[s].chat
            IN
            /\ Member(u, c)
            /\ \A m \in MsgIds :
                  IF m \in ExactUnread(messages, c, u)
                  THEN /\ ToSet(messages'[m].readBy) = ToSet(messages[m].readBy) \cup {u}
                       /\ Len(messages'[m].readBy) = Len(messages[m].readBy) + 1
                       /\ [messages'[m] EXCEPT !.readBy = <<>>]
                            = [messages[m] EXCEPT !.readBy = <<>>]
                  ELSE messages'[m] = messages[m]
            /\ last'.n = Cardinality(ExactUnread(messages, c, u))
            /\ ExactUnread(messages', c, u) = {}
            /\ chats' = chats]_vars

\* a markRead marked one message and left the reader's own message and the
\* other reader's mark alone
C9_Witness ==
    /\ last.op = "markRead" /\ last.status = "200" /\ last.n = 1
    /\ \E m \in MsgIds : Stored(m) /\ messages[m].sender = last.user
                          /\ ~Includes(messages[m].readBy, last.user)

\* C10: the chat list asked right after a send completed shows the chat
\* with lastMessage the message sent, unreadCount 1 for every other
\* participant and 0 for the sender; the chat list a user asks right after
\* that user's markRead completed shows unreadCount 0 for the chat.
C10_UnreadScenario ==
    [][\A u \in Users :
        (\E s \in Slots : ListChats(s, u)) =>
            /\ (last.op = "send" /\ last.status \in {"201", "sent"}) =>
                  LET m == last.n
                      c == messages[m].chat
                  IN
                  /\ chats[c].lastMessage = m
                  /\ (u = messages[m].sender) => <<c, 0>> \in last'.list
                  /\ (u # messages[m].sender /\ Member(u, c)) => <<c, 1>> \in last'.list
            /\ (last.op = "markRead" /\ last.status \in {"200", "marked"}
                    /\ last.user = u)
                  => <<last.chat, 0>> \in last'.list]_vars

\* the reader's list shows 0 for a private chat whose last message the
\* other user sent and the reader has read
C10_Witness ==
    /\ last.op = "list"
    /\ \E c \in ChatIds :
          /\ Exists(c) /\ chats[c].type = "private"
          /\ <<c, 0>> \in last.list
          /\ chats[c].lastMessage # 0
          /\ messages[chats[c].lastMessage].sender # last.user
          /\ Includes(messages[chats[c].lastMessage].readBy, last.user)

\* C11: the message list of a chat that does not exist is answered 404 and
\* that of a chat the caller is not a participant of 403, nothing changes;
\* a message list is answered with the messages of the chat only to a
\* participant; a removeMember that writes leaves exactly the participants
\* without the target, so the removed user's later requests are answered
\* 403.
C11_ListMessagesMembersOnly ==
    [][/\ \A u \in Users, c \in ChatIds :
            (\E s \in Slots : ListMessages(s, u, c)) =>
                /\ ~Exists(c) => (last' = Response("listMessages", "404") /\ Unchanged)
                /\ (Exists(c) /\ u \notin ToSet(chats[c].participants))
                      => (last' = Response("listMessages", "403") /\ Unchanged)
       /\ \A s \in Slots :
            (reqs[s].pc = "findMessages" /\ FindMessages(s)) =>
                /\ Exists(reqs[s].chat)
                /\ reqs[s].user \in ToSet(chats[reqs[s].chat].participants)
                /\ last'.status = "200"
                /\ last'.list = {m \in MsgIds : Stored(m) /\ messages[m].chat = reqs[s].chat}
       /\ \A s \in Slots :
            (reqs[s].pc = "setSave" /\ reqs[s].op = "removeMember" /\ SetSave(s)) =>
                /\ ToSet(chats'[reqs[s].chat].participants)
                      = ToSet(chats[reqs[s].chat].participants) \ {reqs[s].other}
                /\ Len(chats'[reqs[s].chat].participants)
                      = Len(chats[reqs[s].chat].participants) - 1]_vars

\* user 2 was removed from the group of 1, 2 and 3 by the admin and is
\* refused the message list
C11_Witness ==
    /\ last = Response("listMessages", "403")
    /\ Cardinality({c \in ChatIds : Exists(c)}) = 1
    /\ \E c \in ChatIds :
          /\ Exists(c) /\ chats[c].type = "group"
          /\ ToSet(chats[c].participants) = {1, 3}
          /\ chats[c].admins = <<1>>
          /\ \E m \in MessagesOf(c) : messages[m].system /\ messages[m].sender = 1

Leaving == {"leave", "leaveOld"}

\* C13: when a participant of a group who is not an admin and not the last
\* participant asks to leave, by either leave route, the request is
\* accepted; its save removes the participant and leaves the admins as
\* they were, and the request is answered 200.
C13_MemberLeavesNobodyPromoted ==
    [][/\ \A u \in Users, c \in ChatIds :
            (/\ Exists(c) /\ chats[c].type = "group"
             /\ u \in ToSet(chats[c].participants)
             /\ u \notin ToSet(chats[c].admins)
             /\ Len(chats[c].participants) > 1
             /\ \E s \in Slots : Leave(s, u, c) \/ LeaveOld(s, u, c))
            => \E s \in Slots : reqs'[s].pc = "setSave" /\ reqs'[s].op \in Leaving
       /\ \A s \in Slots :
            (/\ reqs[s].pc = "setSave" /\ reqs[s].op \in Leaving
             /\ reqs[s].user \notin ToSet(chats[reqs[s].chat].admins)
             /\ SetSave(s))
            => /\ chats'[reqs[s].chat].participants
                    = Without(chats[reqs[s].chat].participants, reqs[s].user)
               /\ reqs[s].user \notin ToSet(chats'[reqs[s].chat].participants)
               /\ chats'[reqs[s].chat].admins = chats[reqs[s].chat].admins
       /\ \A s \in Slots :
            (/\ reqs[s].pc = "systemMessage" /\ reqs[s].op \in Leaving
             /\ SystemMessage(s))
            => last'.status = "200"]_vars

\* the two members who were not admins have left, the second by the older
\* route, and the admin is who it was
C13_Witness ==
    /\ last = Response("leaveOld", "200")
    /\ \E c \in ChatIds :
          /\ Exists(c) /\ chats[c].type = "group"
          /\ chats[c].participants = <<1>>
          /\ chats[c].admins = <<1>>
          /\ \E m, k \in MessagesOf(c) :
                /\ messages[m].system /\ messages[m].sender = 2
                /\ messages[k].system /\ messages[k].sender = 3

\* C14: when the only admin of a group that has other participants asks
\* to leave, by either leave route, the request is accepted and its save
\* hands the admin rights to the first of the remaining participants.
C14_LastAdminCanLeave ==
    [][/\ \A u \in Users, c \in ChatIds :
            (/\ Exists(c) /\ chats[c].type = "group"
             /\ ToSet(chats[c].admins) = {u}
             /\ u \in ToSet(chats[c].participants)
             /\ Len(chats[c].participants) > 1
             /\ \E s \in Slots : Leave(s, u, c) \/ LeaveOld(s, u, c))
            => \E s \in Slots :
                  /\ reqs'[s].pc = "setSave" /\ reqs'[s].op \in Leaving
                  /\ reqs'[s].doc.admins = <<Without(chats[c].participants, u)[1]>>]_vars

\* C18: an addMembers call that names new members is answered 404 for a
\* chat that does not exist, 400 for a private chat and 403 when the caller
\* is not an admin of the group, and then changes nothing and emits
\* nothing; only an admin's call on a group goes on to the save.
C18_AddMembersAdminsOnly ==
    [][\A u \in Users, c \in ChatIds, ids \in MemberLists \ {<<>>} :
        (\E s \in Slots : AddMembers(s, u, c, ids)) =>
            /\ ~Exists(c)
                  => (last' = Response("addMembers", "404") /\ emitted' = {} /\ Unchanged)
            /\ (Exists(c) /\ chats[c].type = "private")
                  => (last' = Response("addMembers", "400") /\ emitted' = {} /\ Unchanged)
            /\ (Exists(c) /\ chats[c].type = "group" /\ u \notin ToSet(chats[c].admins))
                  => (last' = Response("addMembers", "403") /\ emitted' = {} /\ Unchanged)
            /\ (\E s \in Slots : reqs'[s].pc = "pushSave")
                  => (Exists(c) /\ chats[c].type = "group" /\ u \in ToSet(chats[c].admins))]_vars

\* a participant who is not an admin was refused to add the user the admin
\* had removed
C18_Witness ==
    /\ last = Response("addMembers", "403")
    /\ \E c \in ChatIds :
          /\ Exists(c) /\ chats[c].type = "group"
          /\ Len(chats[c].participants) = 2
          /\ \E m \in MessagesOf(c) : messages[m].system

\* C15: in every step, a message that is stored before and after keeps
\* every reader it had: its readBy only grows.
C15_ReadMarksOnlyGrow ==
    [][\A m \in MsgIds :
        (Stored(m) /\ messages'[m].type = "message")
            => ToSet(messages[m].readBy) \subseteq ToSet(messages'[m].readBy)]_vars

\* a message of the private chat carries the marks of its sender, of the
\* other participant and, by a single-message read, of the third user
C15_Witness ==
    /\ last.op = "readMessage" /\ last.status = "read"
    /\ \E m \in MsgIds : Stored(m) /\ ToSet(messages[m].readBy) = Users
    /\ \E m \in MsgIds : Stored(m) /\ messages[m].readBy = <<>>

\* C16: every stored message has its sender among its readers.
C16_SenderHasRead ==
    \A m \in MsgIds : Stored(m) => Includes(messages[m].readBy, messages[m].sender)

\* C17: the events of a markRead go to the personal room of the reader
\* and to no other room.
C17_MarkReadNotifiesReaderOnly ==
    (last.op = "markRead" /\ last.status \in {"200", "marked"})
        => \A e \in emitted : e.room = <<"user", last.user>>

\* C19: a group request with a blank name is answered 400 and creates no
\* chat; so is a request that names nobody but the creator; a group that
\* is created has the creator among its participants and its admins.
C19_GroupNeedsOthers ==
    [][\A u \in Users, ids \in IdLists :
        /\ (\E s \in Slots : CreateChat(s, u, ids, "group", " "))
              => (last' = Response("create", "400") /\ chats' = chats)
        /\ (\E s \in Slots : CreateChat(s, u, ids, "group", "g")) =>
              IF ToSet(ids) \ {u} = {}
              THEN last' = Response("create", "400") /\ chats' = chats
              ELSE \A c \in ChatIds :
                      chats'[c] # chats[c]
                          => /\ Includes(chats'[c].participants, u)
                             /\ Includes(chats'[c].admins, u)]_vars

\* C20: every stored private chat has exactly two participants, and they
\* are two different users.
C20_PrivateHasTwo ==
    \A c \in ChatIds :
        (Exists(c) /\ chats[c].type = "private")
            => /\ Len(chats[c].participants) = 2
               /\ Cardinality(ToSet(chats[c].participants)) = 2

\* C21: a private chat disappears only by the delete request of its last
\* remaining participant.  When one of its two participants deletes it,
\* the save leaves the chat and every message in place and the other
\* participant still participates: the chat is in that user's chat list
\* and the message list is open to that user.  When the last participant
\* deletes it, the chat and all its messages are gone.
C21_PrivateDeletedWhenUnreferenced ==
    [][/\ \A s \in Slots, c \in ChatIds, p \in Users :
            (/\ reqs[s].pc = "setSave" /\ reqs[s].op = "deleteChat"
             /\ reqs[s].chat = c
             /\ chats[c].participants = <<reqs[s].user, p>>
                    \/ chats[c].participants = <<p, reqs[s].user>>
             /\ SetSave(s))
            => /\ p # reqs[s].user
               /\ chats'[c].type = "private"
               /\ messages' = messages
               /\ IsParticipant(chats'[c], p)
               /\ ~IsParticipant(chats'[c], reqs[s].user)
               /\ \E n \in 0..1 : <<c, n>> \in ChatList(p)'
       /\ \A s \in Slots :
            (reqs[s].pc = "setSave" /\ reqs[s].op = "deleteChat" /\ SetSave(s))
            => Len(chats[reqs[s].chat].participants) = 2
       /\ \A c \in ChatIds :
            (Exists(c) /\ chats[c].type = "private" /\ chats'[c] = Deleted)
            => /\ \E s \in Slots :
                     /\ reqs[s].pc = "deleteOne" /\ reqs[s].chat = c
                     /\ ToSet(chats[c].participants) = {reqs[s].user}
               /\ \A m \in MsgIds : messages'[m].type = "message" => messages'[m].chat # c
       /\ \A m \in MsgIds :
            (Stored(m) /\ chats[messages[m].chat].type = "private"
                /\ messages'[m] = Deleted)
            => \E s \in Slots :
                  /\ reqs[s].pc = "deleteMany" /\ reqs[s].chat = messages[m].chat
                  /\ ToSet(chats[reqs[s].chat].participants) = {reqs[s].user}]_vars

\* the first private chat and its message are gone after both sides
\* deleted it; the second one was deleted by one side and is still there
\* with its message
C21_Witness ==
    /\ last = Response("deleteChat", "200")
    /\ \E c, d \in ChatIds :
          /\ chats[c] = Deleted
          /\ \E m \in MsgIds : messages[m] = Deleted
          /\ Exists(d) /\ chats[d].type = "private"
          /\ Len(chats[d].participants) = 1
          /\ MessagesOf(d) # {}

\* C22: every stored message belongs to a chat that exists.
C22_NoOrphanMessages ==
    \A m \in MsgIds : Stored(m) => Exists(messages[m].chat)

\* C26: when a handler has emitted receive_message for a message of a
\* chat, every message of the chat that was committed later has not been
\* broadcast yet: the handler that saved it is still before its own
\* broadcast.
C26_BroadcastInCommitOrder ==
    \A e \in emitted :
        e.ev = "receive_message" =>
            \A k \in MessagesOf(e.chat) :
                k > e.msg => \E s \in Slots : reqs[s].pc = "saveChat" /\ reqs[s].msg = k

\* C27: when no handler is in flight, the lastMessage of a chat is 0 if
\* the chat has no message and otherwise its most recently created
\* message, system messages included.
C27_LastMessageIsNewest ==
    InFlight = {} =>
        \A c \in ChatIds :
            Exists(c) =>
                chats[c].lastMessage
                    = IF MessagesOf(c) = {} THEN 0 ELSE Max(MessagesOf(c))

\* C28: the save of a message by a send happens only while the sender
\* participates in the chat.
C28_SenderParticipatesAtCommit ==
    [][\A s \in Slots :
        (reqs[s].pc = "saveMessage" /\ SaveMessage(s) /\ messages' # messages)
            => (Exists(reqs[s].chat)
                /\ reqs[s].user \in ToSet(chats[reqs[s].chat].participants))]_vars

Times(s, x) == Cardinality({i \in 1..Len(s) : s[i] = x})

\* C23: a hide request on a group is answered 400 and one on a private
\* chat by a user who does not participate 403, and nothing changes; the
\* save of an accepted request adds the user to hiddenBy, once; a hide by
\* a user who is in hiddenBy already is answered 200 and changes nothing.
C23_HideOnceOnly ==
    [][/\ \A u \in Users, c \in ChatIds :
            (Exists(c) /\ \E s \in Slots : Hide(s, u, c)) =>
                /\ chats[c].type = "group"
                      => (last' = Response("hide", "400") /\ Unchanged)
                /\ (chats[c].type = "private" /\ u \notin ToSet(chats[c].participants))
                      => (last' = Response("hide", "403") /\ Unchanged)
                /\ (/\ chats[c].type = "private"
                    /\ u \in ToSet(chats[c].participants)
                    /\ u \in ToSet(chats[c].hiddenBy))
                      => (last'.status = "200" /\ Unchanged)
                /\ (/\ chats[c].type = "private"
                    /\ u \in ToSet(chats[c].participants)
                    /\ u \notin ToSet(chats[c].hiddenBy))
                      => \E s \in Slots : reqs'[s].pc = "hideSave"
       /\ \A s \in Slots :
            (reqs[s].pc = "hideSave" /\ HideSave(s)) =>
                /\ last'.status = "200"
                /\ chats'[reqs[s].chat].hiddenBy
                      = Append(chats[reqs[s].chat].hiddenBy, reqs[s].user)
                /\ Times(chats'[reqs[s].chat].hiddenBy, reqs[s].user) = 1
                /\ chats'[reqs[s].chat].participants = chats[reqs[s].chat].participants]_vars

\* both users of the private chat have hidden it
C23_Witness ==
    /\ last.op = "hide" /\ last.status = "200"
    /\ Exists(last.chat)
    /\ Len(chats[last.chat].hiddenBy) = 2
    /\ ToSet(chats[last.chat].hiddenBy) = ToSet(chats[last.chat].participants)

\* C29: concurrent membership changes that all succeeded leave the
\* participants and admins some serial order of them would leave.  In
\* every serial order addMembers appends only users who do not participate
\* yet, so when no handler is in flight no group holds a user twice among
\* its participants or its admins.
C29_MembershipSerial ==
    InFlight = {} =>
        \A c \in ChatIds :
            (Exists(c) /\ chats[c].type = "group") =>
                \A u \in Users :
                    /\ Times(chats[c].participants, u) <= 1
                    /\ Times(chats[c].admins, u) <= 1

\* C30: no message has a user twice in its readBy.
C30_ReadMarksOnce ==
    \A m \in MsgIds :
        Stored(m) => \A u \in Users : Times(messages[m].readBy, u) <= 1

\* C24: the middleware does exactly one thing with every request: it
\* answers 401 or it calls next(), and it calls next() only for a valid
\* token.  A request without a valid credential is answered 401, its route
\* handler does not run: no chat, no message and no handler in flight
\* changes, and nothing is emitted.
C24_NoCredentialNoHandler ==
    [][/\ \A cred \in Credentials :
            /\ Len(Protect(cred)) = 1
            /\ Protect(cred) = IF cred = "valid" THEN <<"next">> ELSE <<"401">>
       /\ \A cred \in Credentials \ {"valid"}, u \in Users, c \in ChatIds :
            (\E s \in Slots : Authenticated(s, cred, u, c))
                => (last' = Response("auth", "401") /\ emitted' = {} /\ Unchanged)]_vars

\* a request without a valid credential was answered 401 while a chat with
\* a message exists
C24_Witness ==
    /\ last = Response("auth", "401")
    /\ \E c \in ChatIds : Exists(c) /\ chats[c].lastMessage # 0

\* C25: every open connection has an authenticated user, and a connection
\* is in a room only with one.
C25_ConnectionsAuthenticated ==
    \A s \in Connected : reqs[s].user \in Users
\* a sequence without a repeated element
IsSet(seq) == \A i, j \in 1..Len(seq) : seq[i] = seq[j] => i = j

\* C31: participants is a set: after any sequence of createGroup and
\* addMembers requests, a request whose id list repeats an id included, no
\* user id appears twice in the participants of a group.
C31_ParticipantsIsSet ==
    \A c \in ChatIds :
        (Exists(c) /\ chats[c].type = "group") => IsSet(chats[c].participants)

\* the personal rooms an event of the last handler went to
RoomsOf(ev) == {e.room[2] : e \in {x \in emitted : x.room[1] = "user" /\ x.ev = ev}}

\* C32: a successful removeMember stores the participants and admins
\* without the removed user, and its broadcasts are built from exactly that
\* document: chatRemoved goes to the personal room of the removed user and
\* to nobody else, chatUpdated to the personal room of every remaining
\* participant and never to the removed user.
C32_RemovedGetsChatRemoved ==
    [][\A s \in Slots, c \in ChatIds, t \in Users :
        (/\ reqs[s].pc \in {"setSave", "systemMessage"}
         /\ reqs[s].op = "removeMember"
         /\ reqs[s].chat = c
         /\ reqs[s].other = t)
        => /\ (SetSave(s) /\ reqs'[s].pc = "systemMessage")
                => /\ chats'[c].participants = reqs[s].doc.participants
                   /\ chats'[c].admins = reqs[s].doc.admins
                   /\ chats'[c].participants = Without(chats[c].participants, t)
                   /\ chats'[c].admins = Without(chats[c].admins, t)
                   /\ reqs'[s].doc = reqs[s].doc
           /\ SystemMessage(s)
                => /\ last'.op = "removeMember" /\ last'.status = "200"
                   /\ RoomsOf("chatRemoved")' = {t}
                   /\ RoomsOf("chatUpdated")' = ToSet(reqs[s].doc.participants)
                   /\ t \notin RoomsOf("chatUpdated")'
                   /\ \A e \in emitted' : e.chat = c]_vars

C32_Witness ==
    /\ last.op = "removeMember" /\ last.status = "200"
    /\ RoomsOf("chatRemoved") # {}
    /\ RoomsOf("chatUpdated") # {}
    /\ RoomsOf("chatRemoved") \cap RoomsOf("chatUpdated") = {}


\* C33: a send that succeeds emits one receive_message to the room of the
\* conversation and a chatUpdated to the personal room of every participant
\* the chat has when the broadcast is made, both after the Message and the
\* summary of the chat were stored; a send that fails emits neither.
C33_SendFansOut ==
    [][\A s \in Slots, c \in ChatIds :
        (reqs[s].pc \in {"saveMessage", "saveChat"} /\ reqs[s].op = "send"
            /\ reqs[s].chat = c /\ (SaveMessage(s) \/ SaveChat(s)))
        => IF reqs'[s].pc # "idle"
           THEN UNCHANGED emitted
           ELSE IF last'.status \in {"201", "sent"}
           THEN /\ {e \in emitted' : e.ev = "receive_message"}
                      = {Event("chat", c, "receive_message", c, last'.n)}
                /\ RoomsOf("chatUpdated")' = ToSet(chats'[c].participants)
                /\ messages'[last'.n].type = "message"
                /\ chats'[c].lastMessage = last'.n
           ELSE \A e \in emitted' : e.ev \notin {"receive_message", "chatUpdated"}]_vars


\* C34: when the save of the chat fails after the Message was saved, the
\* handler repairs the summary before it answers: lastMessage refers to the
\* saved Message when the handler returns, and the failure is reported to
\* the sender alone.
C34_FailedSummaryRepaired ==
    [][\A s \in Slots, c \in ChatIds, m \in MsgIds :
        (reqs[s].pc = "saveChat" /\ reqs[s].chat = c /\ reqs[s].msg = m
            /\ SaveChatFails(s))
        => /\ chats'[c].lastMessage = m
           /\ \A e \in emitted' : e.room[1] = "socket"]_vars


C36_OwnPersonalRoomOnly ==
    \A s \in Connected :
        reqs[s].server = "auth"
            => {key[2] : key \in {k \in reqs[s].rooms : k[1] = "user"}} = {reqs[s].user}

\* C37: when a receive_message is emitted to the room of a chat, every
\* socket it is delivered to belongs to a user who is a participant of
\* that chat at that moment.
C37_ReceiversParticipate ==
    [][emitted' # emitted =>
        \A e \in emitted' : e.ev = "receive_message" =>
            \A s \in Receivers(e)' :
                IsParticipant(chats'[e.chat], reqs'[s].user)]_vars

\* C39: the sender stored on a Message is the authenticated user of the
\* socket whose sendMessage event created it.
C39_SenderIsAuthenticated ==
    [][\A s \in Slots, u \in Users, c \in ChatIds :
        (reqs[s].pc = "connected" /\ SendMessageOld(s, u, c, "hi"))
        => \A m \in MsgIds :
            messages'[m] # messages[m] => messages'[m].sender = reqs[s].user]_vars


\* C38: the REST send and the socket sendMessage store the same Message
\* for the same chat, sender and content: two stored messages that agree on
\* these fields agree on readBy as well (no request of these runs marks a
\* message read).
C38_SendPathsAgree ==
    \A m1, m2 \in MsgIds :
        (/\ Stored(m1) /\ Stored(m2)
         /\ messages[m1].chat = messages[m2].chat
         /\ messages[m1].sender = messages[m2].sender
         /\ messages[m1].content = messages[m2].content
         /\ messages[m1].media = messages[m2].media
         /\ messages[m1].system = messages[m2].system)
        => messages[m1].readBy = messages[m2].readBy

\* C40: in every row of a chat list the unread indicator is 1 exactly when
\* the last message of the chat was sent by someone else and the user is
\* not in its readBy; an indicator of 1 means the exact unread count of the
\* chat is at least 1, an exact count of 0 means the indicator is 0.
C40_IndicatorSound ==
    [][\A u \in Users :
        (\E s \in Slots : ListChats(s, u)) =>
            \A row \in last'.list :
                LET c == row[1]
                    m == chats[c].lastMessage
                IN
                /\ row[2] \in {0, 1}
                /\ row[2] = 1 <=> /\ m # 0 /\ Stored(m)
                                  /\ messages[m].sender # u
                                  /\ ~Includes(messages[m].readBy, u)
                /\ row[2] = 1 => Cardinality(ExactUnread(messages, c, u)) >= 1
                /\ Cardinality(ExactUnread(messages, c, u)) = 0 => row[2] = 0]_vars

\* a list with a row that shows 1 for a chat in which the user has read
\* one message and not the last one
C40_Witness ==
    /\ last.op = "list"
    /\ \E row \in last.list :
          /\ row[2] = 1
          /\ Cardinality(ExactUnread(messages, row[1], last.user)) >= 1
          /\ \E m \in MessagesOf(row[1]) : Includes(messages[m].readBy, last.user)


====
